---- MODULE Spec2Model ----
(***************************************************************************)
(* Auto-ranging ohm meter firmware (Nano_Code_Rev1-3_1.ino).               *)
(*                                                                         *)
(* The state is the firmware's globals, the static locals of readVoltages, *)
(* the peripherals it drives (four MOSFET pins, the ADS1115 gain setting,  *)
(* the LCD) and the position of the single thread of control.  Voltages    *)
(* are integers in millivolts; every other double is an exact rational     *)
(* extended with +inf, -inf and NaN, so the IEEE special cases of the      *)
(* divisions are kept and rounding is left out.                            *)
(***************************************************************************)
EXTENDS Integers, Sequences, FiniteSets, TLC

(***************************************************************************)
(* Natural numbers of any size: little-endian sequences of limbs in base   *)
(* 1000 without leading zero limbs (TLC's own integers are 32 bits wide,   *)
(* too narrow for the parallel-resistance fractions).                      *)
(***************************************************************************)
RECURSIVE NatOf(_)
NatOf(n) == IF n = 0 THEN << >> ELSE <<n % 1000>> \o NatOf(n \div 1000)

RECURSIVE NStrip(_)
NStrip(a) ==
    IF a = << >> THEN << >>
    ELSE IF a[Len(a)] = 0 THEN NStrip(SubSeq(a, 1, Len(a) - 1))
    ELSE a

\* carry (or borrow) propagation over limbs that may lie outside 0..999
RECURSIVE NCarry(_, _, _)
NCarry(a, i, c) ==
    IF i > Len(a)
    THEN (IF c = 0 THEN << >> ELSE <<c % 1000>> \o NCarry(a, i, c \div 1000))
    ELSE LET t == a[i] + c
         IN  <<t % 1000>> \o NCarry(a, i + 1, t \div 1000)

NLimb(a, i) == IF i <= Len(a) THEN a[i] ELSE 0

NMaxLen(a, b) == IF Len(a) >= Len(b) THEN Len(a) ELSE Len(b)

NAdd(a, b) ==
    NStrip(NCarry([i \in 1..NMaxLen(a, b) |-> NLimb(a, i) + NLimb(b, i)], 1, 0))

\* a - b for a >= b
NSub(a, b) ==
    NStrip(NCarry([i \in 1..NMaxLen(a, b) |-> NLimb(a, i) - NLimb(b, i)], 1, 0))

NMul(a, b) ==
    IF a = << >> \/ b = << >> THEN << >>
    ELSE LET la == Len(a)
             lb == Len(b)
             Col(k) ==
                 LET lo == IF k + 1 - lb > 1 THEN k + 1 - lb ELSE 1
                     hi == IF k < la THEN k ELSE la
                     S[i \in (lo - 1)..hi] ==
                         IF i < lo THEN 0 ELSE S[i - 1] + a[i] * b[k + 1 - i]
                 IN  S[hi]
         IN  NStrip(NCarry([k \in 1..(la + lb - 1) |-> Col(k)], 1, 0))

\* -1, 0, 1 as a < b, a = b, a > b
RECURSIVE NCmpFrom(_, _, _)
NCmpFrom(a, b, i) ==
    IF i = 0 THEN 0
    ELSE IF a[i] < b[i] THEN -1
    ELSE IF a[i] > b[i] THEN 1
    ELSE NCmpFrom(a, b, i - 1)

NCmp(a, b) ==
    IF Len(a) < Len(b) THEN -1
    ELSE IF Len(a) > Len(b) THEN 1
    ELSE NCmpFrom(a, b, Len(a))

(***************************************************************************)
(* double: [k, s, n, d].  k = "fin": the rational s * n / d with sign s    *)
(* in {-1, 0, 1}, n and d naturals, d > 0 (fractions are not reduced, so   *)
(* values are compared with DEq, never with =).  k = "inf": s * infinity.  *)
(* k = "nan": not a number.  Zero is always +0: no operation of the        *)
(* firmware yields a -0 that later divides something.                      *)
(***************************************************************************)
NaN == [k |-> "nan", s |-> 0, n |-> << >>, d |-> << >>]

Inf(s) == [k |-> "inf", s |-> s, n |-> << >>, d |-> << >>]

Fin(s, n, d) ==
    IF n = << >> THEN [k |-> "fin", s |-> 0, n |-> << >>, d |-> <<1>>]
    ELSE [k |-> "fin", s |-> s, n |-> n, d |-> d]

Sign(i) == IF i < 0 THEN -1 ELSE IF i = 0 THEN 0 ELSE 1

Abs(i) == IF i < 0 THEN -i ELSE i

\* the double p / q for integers p and q > 0
Ratio(p, q) == Fin(Sign(p), NatOf(Abs(p)), NatOf(q))

DZero == Ratio(0, 1)

IsFinite(x) == x.k = "fin"

IsNaN(x) == x.k = "nan"

DNeg(x) == [x EXCEPT !.s = -x.s]

\* sign and magnitude of s1*n1 + s2*n2
SAdd(s1, n1, s2, n2) ==
    IF s1 = 0 THEN <<s2, n2>>
    ELSE IF s2 = 0 THEN <<s1, n1>>
    ELSE IF s1 = s2 THEN <<s1, NAdd(n1, n2)>>
    ELSE LET c == NCmp(n1, n2)
         IN  IF c = 0 THEN <<0, << >> >>
             ELSE IF c > 0 THEN <<s1, NSub(n1, n2)>>
             ELSE <<s2, NSub(n2, n1)>>

DAdd(x, y) ==
    IF IsNaN(x) \/ IsNaN(y) THEN NaN
    ELSE IF x.k = "inf" /\ y.k = "inf" THEN (IF x.s = y.s THEN x ELSE NaN)
    ELSE IF x.k = "inf" THEN x
    ELSE IF y.k = "inf" THEN y
    ELSE IF x.d = y.d
         THEN LET r == SAdd(x.s, x.n, y.s, y.n) IN Fin(r[1], r[2], x.d)
    ELSE LET r == SAdd(x.s, NMul(x.n, y.d), y.s, NMul(y.n, x.d))
         IN  Fin(r[1], r[2], NMul(x.d, y.d))

DSub(x, y) == DAdd(x, DNeg(y))

DMul(x, y) ==
    IF IsNaN(x) \/ IsNaN(y) THEN NaN
    ELSE IF x.k = "inf" \/ y.k = "inf"
         THEN (IF x.s = 0 \/ y.s = 0 THEN NaN ELSE Inf(x.s * y.s))
    ELSE Fin(x.s * y.s, NMul(x.n, y.n), NMul(x.d, y.d))

\* IEEE division: x/0 is an infinity of x's sign, 0/0 and inf/inf are NaN
DDiv(x, y) ==
    IF IsNaN(x) \/ IsNaN(y) THEN NaN
    ELSE IF x.k = "inf"
         THEN (IF y.k = "inf" THEN NaN
               ELSE IF y.s = 0 THEN x ELSE Inf(x.s * y.s))
    ELSE IF y.k = "inf" THEN DZero
    ELSE IF y.s = 0 THEN (IF x.s = 0 THEN NaN ELSE Inf(x.s))
    ELSE Fin(x.s * y.s, NMul(x.n, y.d), NMul(x.d, y.n))

\* -1, 0, 1 for two doubles neither of which is NaN
DCmp(x, y) ==
    IF x.k = "inf" \/ y.k = "inf"
    THEN LET vx == IF x.k = "inf" THEN 2 * x.s ELSE 0
             vy == IF y.k = "inf" THEN 2 * y.s ELSE 0
         IN  Sign(vx - vy)
    ELSE IF x.s # y.s THEN Sign(x.s - y.s)
    ELSE IF x.s = 0 THEN 0
    ELSE x.s * NCmp(NMul(x.n, y.d), NMul(y.n, x.d))

\* the comparison operators of C++: every comparison with NaN is false
DLt(x, y) == ~IsNaN(x) /\ ~IsNaN(y) /\ DCmp(x, y) < 0

DGe(x, y) == ~IsNaN(x) /\ ~IsNaN(y) /\ DCmp(x, y) >= 0

\* the same number (NaN equals nothing, itself included)
DEq(x, y) == ~IsNaN(x) /\ ~IsNaN(y) /\ DCmp(x, y) = 0

(***************************************************************************)
(* Program constants.                                                      *)
(***************************************************************************)
res_100k == 2

res_10k == 3

res_1k == 4

res_220 == 5

RESISTOR_1M == 990090

LEAD_RESISTANCE == Ratio(8, 100)

SAMPLE_RATE == 1

DISPLAY_RATE == 100

\* readVoltages' static tables; C index i is position i + 1 here
RESISTANCE_VALUES == <<220, 1000, 9997, 100078>>

NUMBER_OF_SWITCHES == 4

SWITCHES == <<res_220, res_1k, res_10k, res_100k>>

Pins == {res_100k, res_10k, res_1k, res_220}

\* the gain tiers of the header comment, widest range first, ranges in mV
Gains == <<"GAIN_TWOTHIRDS", "GAIN_ONE", "GAIN_TWO", "GAIN_FOUR",
           "GAIN_EIGHT", "GAIN_SIXTEEN">>

GainRange ==
    [g \in {Gains[i] : i \in 1..6} |->
        CASE g = "GAIN_TWOTHIRDS" -> 6144
          [] g = "GAIN_ONE"       -> 4096
          [] g = "GAIN_TWO"       -> 2048
          [] g = "GAIN_FOUR"      -> 1024
          [] g = "GAIN_EIGHT"     -> 512
          [] g = "GAIN_SIXTEEN"   -> 256]

\* width of int on the target (ATmega328P)
IntBits == 16

RECURSIVE Pow2(_)
Pow2(n) == IF n = 0 THEN 1 ELSE 2 * Pow2(n - 1)

\* a subtraction in a type wider than int
IntSubWide(a, b) == a - b

\* conversion to int and int arithmetic, modulo 2^IntBits
ToInt(n) == ((n + Pow2(IntBits - 1)) % Pow2(IntBits)) - Pow2(IntBits - 1)

IntSub(a, b) == ToInt(a - b)

(***************************************************************************)
(* Bounds and the environment's inputs.                                    *)
(***************************************************************************)
\* loop() iterations explored under Spec
MaxLoops == 2

\* loop() iterations explored under SpecTiming
MaxLoopsT == 3

\* loop() iterations explored under SpecAverage
MaxLoopsA == 3

\* what the peripherals may return under a specification: ms between two
\* readings of millis(), the result of ads.begin(), and the voltages (mV)
\* of the three differential channels
Env ==
    [deltas  |-> {100},
     begin   |-> {TRUE, FALSE},
     ref     |-> {5000},
     known   |-> {0, 3750, 4500},
     unknown |-> {-1024, -600, -300, 0, 256, 300, 700, 1024, 1500, 3000, 5000},
     regain  |-> {0, 300},
     loops   |-> MaxLoops]

EnvTiming ==
    [deltas  |-> {0, 1, 99, 100, 32668},
     begin   |-> {TRUE},
     ref     |-> {5000},
     known   |-> {4500},
     unknown |-> {300},
     regain  |-> {300},
     loops   |-> MaxLoopsT]

\* loop() iterations explored under SpecWrap
MaxLoopsW == 3

EnvWrap ==
    [deltas  |-> {0, 1, 99, 100, 32668, 32767},
     begin   |-> {TRUE},
     ref     |-> {5000},
     known   |-> {4500},
     unknown |-> {300},
     regain  |-> {300},
     loops   |-> MaxLoopsW]

EnvAverage ==
    [deltas  |-> {1, 100},
     begin   |-> {TRUE},
     ref     |-> {5000},
     known   |-> {0, 4500},
     unknown |-> {300},
     regain  |-> {300, 600},
     loops   |-> MaxLoopsA]

(***************************************************************************)
(* State.                                                                  *)
(***************************************************************************)
VARIABLES
    pc,                \* position of the thread of control
    now,               \* millis()
    currentTime,       \* loop()'s local
    lastSample, lastDisplay,
    unknownResistance, knownResistance,
    unknownVoltage, knownVoltage, referenceVoltage,
    current,
    openSwitches,      \* readVoltages' static counter
    pins,              \* level of each MOSFET pin
    gain,              \* the ADC's gain setting
    lcd,               \* what the display shows
    io,                \* peripheral calls of the read cycle in progress
    calls,             \* functions loop() has called in this iteration
    loops,             \* loop() iterations so far
    sampleAt, displayAt,   \* millis() at the last sample cycle / refresh
    sampleGap, displayGap, \* ms since then at this iteration's test
    prevAverage,       \* running average before the last calculateResistance
    estimate,          \* calculatedResistance of the last calculateResistance
    runStart, runLength, \* average before, and length of, the present run
                         \* of sample cycles with one and the same estimate
    shown,             \* running average the last displayMeasurement found
    enabled,           \* pins driven high since the last reset, in order
    calm,              \* display refreshes since the last sample cycle whose
                       \* estimate was not a finite value in [0, 1.5e6),
                       \* counted up to CalmEnough
    longest            \* most ms between two successive readings of millis()

vars ==
    <<pc, now, currentTime, lastSample, lastDisplay, unknownResistance,
      knownResistance, unknownVoltage, knownVoltage, referenceVoltage,
      current, openSwitches, pins, gain, lcd, io, calls, loops, sampleAt,
      displayAt, sampleGap, displayGap, prevAverage, estimate, runStart,
      runLength, shown, enabled, calm, longest>>

timeVars == <<now, currentTime, lastSample, lastDisplay>>

measureVars ==
    <<unknownResistance, knownResistance, unknownVoltage, knownVoltage,
      referenceVoltage, current>>

historyVars ==
    <<sampleAt, displayAt, sampleGap, displayGap, prevAverage, estimate,
      runStart, runLength, shown, longest>>

ghostVars == <<historyVars, enabled, calm>>

\* one peripheral call
Write(pin, level) ==
    [op |-> "digitalWrite", pin |-> pin, level |-> level, ch |-> "",
     gain |-> "", v |-> 0]

Read(ch, g, v) ==
    [op |-> "read", pin |-> 0, level |-> "", ch |-> ch, gain |-> g, v |-> v]

SetGain(g) ==
    [op |-> "setGain", pin |-> 0, level |-> "", ch |-> "", gain |-> g, v |-> 0]

Blank == [kind |-> "blank", value |-> DZero]

\* the globals are zero-initialised; the ADC driver starts at its default
Init ==
    /\ pc = "setup"
    /\ now = 0
    /\ currentTime = 0
    /\ lastSample = 0
    /\ lastDisplay = 0
    /\ unknownResistance = DZero
    /\ knownResistance = DZero
    /\ unknownVoltage = 0
    /\ knownVoltage = 0
    /\ referenceVoltage = 0
    /\ current = DZero
    /\ openSwitches = 4
    /\ pins = [p \in Pins |-> "LOW"]
    /\ gain = "GAIN_TWOTHIRDS"
    /\ lcd = Blank
    /\ io = << >>
    /\ calls = << >>
    /\ loops = 0
    /\ sampleAt = 0
    /\ displayAt = 0
    /\ sampleGap = 0
    /\ displayGap = 0
    /\ prevAverage = DZero
    /\ estimate = DZero
    /\ runStart = DZero
    /\ runLength = 0
    /\ shown = DZero
    /\ enabled = << >>
    /\ calm = 0
    /\ longest = 0

(***************************************************************************)
(* setup()                                                                 *)
(***************************************************************************)
\* a setup() that returns after printing the failure message
SetupFallsThrough(E) ==
    /\ pc = "setup"
    /\ \E ok \in E.begin :
         /\ pins' = [p \in Pins |-> "LOW"]
         /\ pc' = "loop"
         /\ IF ok
            THEN /\ knownResistance' = Ratio(RESISTOR_1M, 1)
                 /\ lastSample' = 0
                 /\ lastDisplay' = 0
                 /\ lcd' = lcd
            ELSE /\ lcd' = [kind |-> "ADC Fail", value |-> DZero]
                 /\ UNCHANGED <<knownResistance, lastSample, lastDisplay>>
    /\ UNCHANGED <<now, currentTime, unknownResistance, unknownVoltage,
                   knownVoltage, referenceVoltage, current, openSwitches,
                   gain, io, calls, loops, ghostVars>>

\* pins low, then ads.begin(); on failure "ADC Fail" and while (1);
Setup(E) ==
    /\ pc = "setup"
    /\ \E ok \in E.begin :
         /\ pins' = [p \in Pins |-> "LOW"]
         /\ IF ok
            THEN /\ knownResistance' = Ratio(RESISTOR_1M, 1)
                 /\ lastSample' = 0
                 /\ lastDisplay' = 0
                 /\ pc' = "loop"
                 /\ lcd' = lcd
            ELSE /\ lcd' = [kind |-> "ADC Fail", value |-> DZero]
                 /\ pc' = "halt"
                 /\ UNCHANGED <<knownResistance, lastSample, lastDisplay>>
    /\ UNCHANGED <<now, currentTime, unknownResistance, unknownVoltage,
                   knownVoltage, referenceVoltage, current, openSwitches,
                   gain, io, calls, loops, ghostVars>>

(***************************************************************************)
(* loop(): the sampling test                                               *)
(***************************************************************************)
\* a sampling test that waits for more than SAMPLE_RATE
SampleDueLater(t) == IntSub(t, lastSample) > SAMPLE_RATE

SampleDue(t) == IntSub(t, lastSample) >= SAMPLE_RATE

\* a display test against the sampling timestamp
DisplayDueSinceSample(t) == IntSub(t, lastSample) >= DISPLAY_RATE

DisplayDue(t) == IntSub(t, lastDisplay) >= DISPLAY_RATE

LoopBegin(E) ==
    /\ pc = "loop"
    /\ loops < E.loops
    /\ \E d \in E.deltas :
         /\ now' = now + d
         /\ currentTime' = ToInt(now + d)
         /\ sampleGap' = now + d - sampleAt
         /\ longest' = IF d > longest THEN d ELSE longest
         /\ IF SampleDue(ToInt(now + d))
            THEN /\ lastSample' = ToInt(now + d)
                 /\ sampleAt' = now + d
                 /\ calls' = <<"readVoltages">>
                 /\ pc' = "rv_reset"
            ELSE /\ UNCHANGED <<lastSample, sampleAt>>
                 /\ calls' = << >>
                 /\ pc' = "display"
    /\ loops' = loops + 1
    /\ io' = << >>
    /\ UNCHANGED <<lastDisplay, measureVars, openSwitches, pins, gain, lcd,
                   displayAt, displayGap, prevAverage, estimate, runStart,
                   runLength, shown, enabled, calm>>

(***************************************************************************)
(* readVoltages()                                                          *)
(***************************************************************************)
\* a reset loop that increments before it indexes
ResetWritesSkip(k) ==
    IF k < NUMBER_OF_SWITCHES
    THEN [j \in 1..(NUMBER_OF_SWITCHES - 1 - k) |-> Write(SWITCHES[k + 1 + j], "LOW")]
    ELSE << >>

\* a reset loop that runs down from the end of the table
ResetWritesDescending(k) ==
    [j \in 1..(NUMBER_OF_SWITCHES - k) |->
        Write(SWITCHES[NUMBER_OF_SWITCHES + 1 - j], "LOW")]

\* the reset loop, from counter value k: the writes it makes
RECURSIVE ResetWrites(_)
ResetWrites(k) ==
    IF k < NUMBER_OF_SWITCHES
    THEN <<Write(SWITCHES[k + 1], "LOW")>> \o ResetWrites(k + 1)
    ELSE << >>

RECURSIVE Apply(_, _)
Apply(levels, writes) ==
    IF writes = << >> THEN levels
    ELSE Apply([levels EXCEPT ![Head(writes).pin] = Head(writes).level],
               Tail(writes))

\* a reset that leaves the counter where the search left it
RvResetKeepsCounter ==
    /\ pc = "rv_reset"
    /\ pins' = Apply(pins, ResetWrites(openSwitches))
    /\ io' = io \o ResetWrites(openSwitches)
    /\ openSwitches' = openSwitches
    /\ knownResistance' = Ratio(RESISTOR_1M, 1)
    /\ enabled' = << >>
    /\ pc' = "rv_read"
    /\ UNCHANGED <<timeVars, unknownResistance, unknownVoltage, knownVoltage,
                   referenceVoltage, current, gain, lcd, calls, loops,
                   historyVars, calm>>

\* the reset loop, then knownResistance = RESISTOR_1M
RvReset ==
    /\ pc = "rv_reset"
    /\ pins' = Apply(pins, ResetWrites(openSwitches))
    /\ io' = io \o ResetWrites(openSwitches)
    /\ openSwitches' =
         IF openSwitches < NUMBER_OF_SWITCHES THEN NUMBER_OF_SWITCHES
         ELSE openSwitches
    /\ knownResistance' = Ratio(RESISTOR_1M, 1)
    /\ enabled' = << >>
    /\ pc' = "rv_read"
    /\ UNCHANGED <<timeVars, unknownResistance, unknownVoltage, knownVoltage,
                   referenceVoltage, current, gain, lcd, calls, loops,
                   historyVars, calm>>

RvReadRefKnown(E) ==
    /\ pc = "rv_read"
    /\ \E r \in E.ref, k \in E.known :
         /\ referenceVoltage' = r
         /\ knownVoltage' = k
         /\ io' = io \o <<Read("0_3", gain, r), Read("2_3", gain, k)>>
    /\ pc' = "rv_search"
    /\ UNCHANGED <<timeVars, unknownResistance, knownResistance,
                   unknownVoltage, current, openSwitches, pins, gain, lcd,
                   calls, loops, ghostVars>>

\* a search that also goes on at exactly 75%
SearchOnAtThreshold ==
    4 * knownVoltage >= 3 * referenceVoltage /\ openSwitches > 0

\* knownVoltage > referenceVoltage * 0.75 && openSwitches > 0
SearchOn == 4 * knownVoltage > 3 * referenceVoltage /\ openSwitches > 0

\* a combination in series
ParallelInSeries(kr, r) == DAdd(kr, Ratio(r, 1))

\* 1 / (pow(knownResistance, -1) + pow(r, -1))
Parallel(kr, r) ==
    DDiv(Ratio(1, 1), DAdd(DDiv(Ratio(1, 1), kr), DDiv(Ratio(1, 1), Ratio(r, 1))))

\* a search that starts at the other end of the tables
NextSwitchFromFront(k) == NUMBER_OF_SWITCHES - k

\* the index --openSwitches yields
NextSwitch(k) == k - 1

RvTapStep(E) ==
    /\ pc = "rv_search"
    /\ SearchOn
    /\ LET i == NextSwitch(openSwitches)
       IN  /\ openSwitches' = i
           /\ pins' = [pins EXCEPT ![SWITCHES[i + 1]] = "HIGH"]
           /\ knownResistance' = Parallel(knownResistance, RESISTANCE_VALUES[i + 1])
           /\ \E k \in E.known, r \in E.ref :
                /\ knownVoltage' = k
                /\ referenceVoltage' = r
                /\ io' = io \o <<Write(SWITCHES[i + 1], "HIGH"),
                                 Read("2_3", gain, k), Read("0_3", gain, r)>>
           /\ enabled' = Append(enabled, SWITCHES[i + 1])
    /\ pc' = "rv_search"
    /\ UNCHANGED <<timeVars, unknownResistance, unknownVoltage, current, gain,
                   lcd, calls, loops, historyVars, calm>>

RvReadUnknown(E) ==
    /\ pc = "rv_search"
    /\ ~SearchOn
    /\ \E u \in E.unknown :
         /\ unknownVoltage' = u
         /\ io' = io \o <<Read("0_1", gain, u)>>
    /\ pc' = "rv_gain"
    /\ UNCHANGED <<timeVars, unknownResistance, knownResistance, knownVoltage,
                   referenceVoltage, current, openSwitches, pins, gain, lcd,
                   calls, loops, ghostVars>>

\* the if/else-if chain of the gain adjustment, v in mV
GainFor(v) ==
    IF v > -256 /\ v < 256 THEN "GAIN_SIXTEEN"
    ELSE IF v > -512 /\ v < 512 THEN "GAIN_EIGHT"
    ELSE IF v > -124 /\ v < 1024 THEN "GAIN_FOUR"
    ELSE IF v > -2048 /\ v < 2048 THEN "GAIN_TWO"
    ELSE IF v > -4096 /\ v < 4096 THEN "GAIN_ONE"
    ELSE "GAIN_TWOTHIRDS"

RvSetGain ==
    /\ pc = "rv_gain"
    /\ gain' = GainFor(unknownVoltage)
    /\ io' = io \o <<SetGain(GainFor(unknownVoltage))>>
    /\ pc' = "rv_read2"
    /\ UNCHANGED <<timeVars, measureVars, openSwitches, pins, lcd, calls,
                   loops, ghostVars>>

RvReadUnknownAgain(E) ==
    /\ pc = "rv_read2"
    /\ \E u \in E.regain :
         /\ unknownVoltage' = u
         /\ io' = io \o <<Read("0_1", gain, u)>>
    /\ pc' = "rv_resetgain"
    /\ UNCHANGED <<timeVars, unknownResistance, knownResistance, knownVoltage,
                   referenceVoltage, current, openSwitches, pins, gain, lcd,
                   calls, loops, ghostVars>>

\* a reset to the wrong tier
ResetGainToOne == "GAIN_ONE"

\* the gain readVoltages leaves behind
ResetGainTo == "GAIN_TWOTHIRDS"

RvResetGain ==
    /\ pc = "rv_resetgain"
    /\ gain' = ResetGainTo
    /\ io' = io \o <<SetGain(ResetGainTo)>>
    /\ pc' = "calculateCurrent"
    /\ UNCHANGED <<timeVars, measureVars, openSwitches, pins, lcd, calls,
                   loops, ghostVars>>

(***************************************************************************)
(* calculateCurrent(), calculateResistance()                               *)
(***************************************************************************)
Volts(mv) == Ratio(mv, 1000)

CalculateCurrent ==
    /\ pc = "calculateCurrent"
    /\ current' = DDiv(Volts(knownVoltage), knownResistance)
    /\ calls' = Append(calls, "calculateCurrent")
    /\ io' = << >>
    /\ pc' = "calculateResistance"
    /\ UNCHANGED <<timeVars, unknownResistance, knownResistance,
                   unknownVoltage, knownVoltage, referenceVoltage,
                   openSwitches, pins, gain, lcd, loops, ghostVars>>

calculatedResistance == DDiv(Volts(unknownVoltage), current)

\* a smoothing that weighs the previous average three to one
AverageThreeToOne(a, e) == DDiv(DAdd(DMul(a, Ratio(3, 1)), e), Ratio(4, 1))

Average(a, e) == DDiv(DAdd(a, e), Ratio(2, 1))

\* a finite value in the meter's range [0, 1.5e6)
InRange(e) == IsFinite(e) /\ DGe(e, DZero) /\ DLt(e, Ratio(1500000, 1))

\* refreshes counted after an estimate out of range
CalmEnough == 2

\* one and the same value (NaN taken to equal NaN)
Same(x, y) == (IsNaN(x) /\ IsNaN(y)) \/ DEq(x, y)

CalculateResistance ==
    /\ pc = "calculateResistance"
    /\ unknownResistance' = Average(unknownResistance, calculatedResistance)
    /\ calls' = Append(calls, "calculateResistance")
    /\ prevAverage' = unknownResistance
    /\ estimate' = calculatedResistance
    /\ IF runLength > 0 /\ Same(estimate, calculatedResistance)
       THEN /\ runLength' = runLength + 1
            /\ runStart' = runStart
       ELSE /\ runLength' = 1
            /\ runStart' = unknownResistance
    /\ calm' = IF InRange(calculatedResistance) THEN calm ELSE 0
    /\ pc' = "display"
    /\ UNCHANGED <<timeVars, knownResistance, unknownVoltage, knownVoltage,
                   referenceVoltage, current, openSwitches, pins, gain, lcd,
                   io, loops, sampleAt, displayAt, sampleGap, displayGap,
                   shown, enabled, longest>>

(***************************************************************************)
(* loop(): the display test, and displayMeasurement()                      *)
(***************************************************************************)
\* a ceiling that is itself still in range
OverRangeAbove(a) == DLt(a, DZero) \/ DLt(Ratio(1500000, 1), a)

\* unknownResistance < 0 || unknownResistance >= 1.5 * pow(10, 6)
OverRange(a) == DLt(a, DZero) \/ DGe(a, Ratio(1500000, 1))

\* a correction that starts above the threshold only
HighEndAbove(r) == DLt(Ratio(500000, 1), r)

\* resistance >= 5.0 * pow(10, 5)
HighEnd(r) == DGe(r, Ratio(500000, 1))

Rendered(a) ==
    LET resistance == DSub(a, LEAD_RESISTANCE)
    IN  IF HighEnd(resistance) THEN DMul(resistance, Ratio(1025, 1000))
        ELSE resistance

\* a displayMeasurement that writes no global
DisplayedAverageKept(a) == a

\* what displayMeasurement leaves in unknownResistance and on the LCD
DisplayedAverage(a) == IF OverRange(a) THEN DZero ELSE a

DisplayedText(a) ==
    IF OverRange(a) THEN [kind |-> "OL", value |-> DZero]
    ELSE [kind |-> "ohms", value |-> Rendered(a)]

Display ==
    /\ pc = "display"
    /\ displayGap' = now - displayAt
    /\ IF DisplayDue(currentTime)
       THEN /\ lastDisplay' = currentTime
            /\ displayAt' = now
            /\ calls' = Append(calls, "displayMeasurement")
            /\ unknownResistance' = DisplayedAverage(unknownResistance)
            /\ lcd' = DisplayedText(unknownResistance)
            /\ runLength' = IF OverRange(unknownResistance) THEN 0 ELSE runLength
            /\ shown' = unknownResistance
            /\ calm' = IF calm < CalmEnough THEN calm + 1 ELSE calm
       ELSE UNCHANGED <<lastDisplay, displayAt, calls, unknownResistance, lcd,
                        runLength, shown, calm>>
    /\ pc' = "loop"
    /\ UNCHANGED <<now, currentTime, lastSample, knownResistance,
                   unknownVoltage, knownVoltage, referenceVoltage, current,
                   openSwitches, pins, gain, io, loops, sampleAt, sampleGap,
                   prevAverage, estimate, runStart, enabled, longest>>

(***************************************************************************)
(* Specifications.                                                         *)
(***************************************************************************)
Step(E) ==
    \/ Setup(E)
    \/ LoopBegin(E)
    \/ RvReset
    \/ RvReadRefKnown(E)
    \/ RvTapStep(E)
    \/ RvReadUnknown(E)
    \/ RvSetGain
    \/ RvReadUnknownAgain(E)
    \/ RvResetGain
    \/ CalculateCurrent
    \/ CalculateResistance
    \/ Display

Next == Step(Env)

Spec == Init /\ [][Next]_vars

NextTiming == Step(EnvTiming)

SpecTiming == Init /\ [][NextTiming]_vars

NextAverage == Step(EnvAverage)

SpecAverage == Init /\ [][NextAverage]_vars

NextWrap == Step(EnvWrap)

SpecWrap == Init /\ [][NextWrap]_vars

\* displayMeasurement as a function of the running average: the state when
\* a refresh is due, the running average drawn from DisplayInputs
Hundredths ==
    {-100, -1, 0, 1, 7, 8, 9, 149999999}
        \cup {k * 2500000 + o : k \in 0..80, o \in {0, 8}}

DisplayInputs == {NaN, Inf(1), Inf(-1)} \cup {Ratio(n, 100) : n \in Hundredths}

InitDisplay ==
    /\ pc = "display"
    /\ now = 100
    /\ currentTime = 100
    /\ lastSample = 100
    /\ lastDisplay = 0
    /\ unknownResistance \in DisplayInputs
    /\ knownResistance = Ratio(RESISTOR_1M, 1)
    /\ unknownVoltage = 0
    /\ knownVoltage = 0
    /\ referenceVoltage = 0
    /\ current = DZero
    /\ openSwitches = 4
    /\ pins = [p \in Pins |-> "LOW"]
    /\ gain = "GAIN_TWOTHIRDS"
    /\ lcd = Blank
    /\ io = << >>
    /\ calls = <<"readVoltages", "calculateCurrent", "calculateResistance">>
    /\ loops = 1
    /\ sampleAt = 100
    /\ displayAt = 0
    /\ sampleGap = 100
    /\ displayGap = 0
    /\ prevAverage = DZero
    /\ estimate = DZero
    /\ runStart = DZero
    /\ runLength = 0
    /\ shown = DZero
    /\ enabled = << >>
    /\ calm = 0
    /\ longest = 100

NextDisplay == Display

SpecDisplay == InitDisplay /\ [][NextDisplay]_vars


(***************************************************************************)
(* Properties.                                                             *)
(***************************************************************************)
SetMax(S) == CHOOSE m \in S : \A y \in S : y <= m

IsHigh(e) == e.op = "digitalWrite" /\ e.level = "HIGH"

IsLow(e) == e.op = "digitalWrite" /\ e.level = "LOW"

IsRead(e, ch) == e.op = "read" /\ e.ch = ch

\* the taps enabled in this read cycle, in the order of their enabling
Highs == SelectSeq(io, IsHigh)

ReadsAt(ch) == {i \in 1..Len(io) : IsRead(io[i], ch)}

\* the voltage of the first / the last reading of a channel before place j
FirstRead(ch) == io[CHOOSE i \in ReadsAt(ch) : \A y \in ReadsAt(ch) : i <= y].v

LastReadBefore(ch, j) == io[SetMax({i \in ReadsAt(ch) : i < j})].v

\* the tap search of the read cycle in progress is over
AfterSearch == pc \in {"rv_gain", "rv_read2", "rv_resetgain", "calculateCurrent"}

AllHigh == \A p \in Pins : pins[p] = "HIGH"

AllLow == \A p \in Pins : pins[p] = "LOW"

\* displayMeasurement ran in the loop() iteration that just ended
Refreshed ==
    pc = "loop" /\ calls # << >> /\ calls[Len(calls)] = "displayMeasurement"

\* C1 as stated: the taps of a read cycle are enabled in increasing index
\* order of the table {220, 1000, 9997, 100078}, the 220-ohm tap first, and
\* with reference 5.0 V and known-tap 4.5 V the 220-ohm tap gets enabled.
C1_SmallestTapFirst ==
    /\ \A j \in 1..Len(Highs) :
         Highs[j].pin = <<res_220, res_1k, res_10k, res_100k>>[j]
    /\ (AfterSearch /\ FirstRead("0_3") = 5000 /\ FirstRead("2_3") = 4500)
         => pins[res_220] = "HIGH"

\* C1 amended: whenever the known-tap voltage exceeds 75% of the reference
\* voltage, taps are enabled one at a time, each followed by a re-read of
\* both voltages, in strictly decreasing index order of the table (largest
\* resistance first: 100078, 9997, 1000, 220); the 100078-ohm tap is the
\* first one enabled, and it is enabled in every cycle whose first readings
\* exceed 75% (reference 5.0 V with known-tap 4.5 V included).
C1_LargestTapFirst ==
    /\ \A j \in 1..Len(Highs) :
         Highs[j].pin = <<res_100k, res_10k, res_1k, res_220>>[j]
    /\ \A j \in 1..Len(io) :
         IsHigh(io[j]) =>
            /\ j + 2 <= Len(io)
            /\ IsRead(io[j + 1], "2_3")
            /\ IsRead(io[j + 2], "0_3")
    /\ (Len(Highs) = 1 /\ pc \in {"rv_search"} \cup
                                 {"rv_gain", "rv_read2", "rv_resetgain"})
         => DEq(DDiv(Ratio(1, 1), knownResistance),
                DAdd(DDiv(Ratio(1, 1), Ratio(990090, 1)),
                     DDiv(Ratio(1, 1), Ratio(100078, 1))))
    /\ (AfterSearch /\ 4 * FirstRead("2_3") > 3 * FirstRead("0_3"))
         => pins[res_100k] = "HIGH"
    /\ (AfterSearch /\ FirstRead("0_3") = 5000 /\ FirstRead("2_3") = 4500)
         => (Len(Highs) >= 1 /\ pins[res_100k] = "HIGH")

C1_Witness ==
    /\ pc = "rv_gain"
    /\ FirstRead("0_3") = 5000
    /\ FirstRead("2_3") = 4500
    /\ Len(Highs) = 2
    /\ pins[res_100k] = "HIGH"
    /\ pins[res_10k] = "HIGH"
    /\ pins[res_220] = "LOW"

\* C2: the tap search of a read cycle stops exactly when the most recent
\* known-tap reading is <= 75% of the most recent reference reading or all
\* four taps are enabled; no tap is enabled when the first reading is at or
\* below 75%; every enabling follows readings above 75%; no tap is disabled
\* once the readings have begun; and with all four taps enabled and the
\* reading still above 75% the cycle reads the unknown-resistor voltage.
C2_SearchStops ==
    /\ AfterSearch =>
         /\ knownVoltage = LastReadBefore("2_3", Len(io) + 1)
         /\ referenceVoltage = LastReadBefore("0_3", Len(io) + 1)
         /\ 4 * knownVoltage <= 3 * referenceVoltage \/ AllHigh
         /\ ReadsAt("0_1") # {}
         /\ lcd.kind # "ADC Fail"
    /\ pc = "rv_search" =>
         (4 * knownVoltage > 3 * referenceVoltage /\ ~AllHigh) = SearchOn
    /\ (ReadsAt("0_3") # {} /\ ReadsAt("2_3") # {}
          /\ 4 * FirstRead("2_3") <= 3 * FirstRead("0_3"))
         => Highs = << >>
    /\ \A j \in 1..Len(io) :
         IsHigh(io[j]) =>
            4 * LastReadBefore("2_3", j) > 3 * LastReadBefore("0_3", j)
    /\ \A j \in 1..Len(io) :
         IsLow(io[j]) => \A i \in 1..j : io[i].op # "read"

C2_Witness ==
    /\ pc = "rv_gain"
    /\ AllHigh
    /\ 4 * knownVoltage > 3 * referenceVoltage
    /\ Len(Highs) = 4

\* the tier's range -r < v < r holds v
Holds(g, v) == -GainRange[g] < v /\ v < GainRange[g]

\* the narrowest of the six symmetric tiers that holds v (the widest if none)
NarrowestTier(v) == Gains[SetMax({1} \cup {i \in 1..6 : Holds(Gains[i], v)})]

\* C3: the gain applied after the first unknown-resistor reading v is the
\* narrowest of the six tiers +/-0.256, +/-0.512, +/-1.024, +/-2.048,
\* +/-4.096, +/-6.144 V whose range holds v.
C3_NarrowestSymmetricTier ==
    pc = "rv_read2" => gain = NarrowestTier(unknownVoltage)

\* C4: when the first voltages of a read cycle are about to be read, all
\* four tap-enable outputs are low, the known resistance is the baseline
\* 990090 ohm, and the cycle has so far only driven outputs low.
C4_ResetBeforeReads ==
    /\ pc = "rv_read" =>
         /\ AllLow
         /\ DEq(knownResistance, Ratio(990090, 1))
         /\ openSwitches = 4
         /\ \A j \in 1..Len(io) : IsLow(io[j])
    /\ \A j \in 1..Len(io) :
         (io[j].op = "read" /\ \A i \in 1..(j - 1) : io[i].op # "read")
            => \A i \in 1..(j - 1) : IsLow(io[i])

C4_Witness ==
    /\ pc = "rv_read"
    /\ Len(io) = 3
    /\ AllLow
    /\ loops = 2

\* C5: a display refresh that finds the running average non-finite
\* (+infinity, -infinity or NaN) renders the out-of-range indicator and
\* resets the running average to zero.
C5_NonFiniteIsOverRange ==
    (Refreshed /\ ~IsFinite(shown))
        => (lcd.kind = "OL" /\ DEq(unknownResistance, DZero))

\* C6: a display refresh renders the out-of-range indicator, and resets the
\* running average to zero, if and only if the running average it finds is
\* negative or >= 1.5e6 ohms (1.5e6 and 2,000,000 are out of range, 0 is in
\* range); otherwise it renders a number and leaves the average alone.
C6_OverRangeIff ==
    Refreshed =>
        /\ (lcd.kind = "OL") =
              (DLt(shown, DZero) \/ DGe(shown, Ratio(1500000, 1)))
        /\ lcd.kind \in {"OL", "ohms"}
        /\ lcd.kind = "OL" => DEq(unknownResistance, DZero)
        /\ lcd.kind = "ohms" => Same(unknownResistance, shown)
        /\ DEq(shown, Ratio(1500000, 1)) => lcd.kind = "OL"
        /\ DEq(shown, Ratio(2000000, 1)) => lcd.kind = "OL"
        /\ DEq(shown, DZero) => lcd.kind = "ohms"

C6_Witness ==
    /\ Refreshed
    /\ DEq(shown, Ratio(1500000, 1))
    /\ lcd.kind = "OL"
    /\ DEq(unknownResistance, DZero)

\* C7: a display refresh that finds the running average A in range
\* (0 <= A < 1.5e6) renders r = A - 0.08 when r < 5e5 and r * 1.025 when
\* r >= 5e5 (600,000.08 renders 615,000 and 0.08 renders 0), and leaves the
\* running average unchanged.
C7_RenderedValue ==
    (Refreshed /\ DGe(shown, DZero) /\ DLt(shown, Ratio(1500000, 1))) =>
        LET r == DSub(shown, Ratio(8, 100))
        IN  /\ lcd.kind = "ohms"
            /\ DLt(r, Ratio(500000, 1)) => DEq(lcd.value, r)
            /\ DGe(r, Ratio(500000, 1)) => DEq(lcd.value, DMul(r, Ratio(41, 40)))
            /\ DEq(unknownResistance, shown)
            /\ DEq(shown, Ratio(60000008, 100)) => DEq(lcd.value, Ratio(615000, 1))
            /\ DEq(shown, Ratio(8, 100)) => DEq(lcd.value, DZero)

C7_Witness ==
    /\ Refreshed
    /\ DEq(shown, Ratio(60000008, 100))
    /\ lcd.kind = "ohms"
    /\ DEq(lcd.value, Ratio(615000, 1))

\* calculateResistance has just run
JustAveraged ==
    pc = "display" /\ calls # << >> /\ calls[Len(calls)] = "calculateResistance"

\* unknownVoltage / (knownVoltage / knownResistance)
InstantEstimate ==
    DDiv(Ratio(unknownVoltage, 1000), DDiv(Ratio(knownVoltage, 1000), knownResistance))

\* E - (E - A0) / 2^N for the present run of equal estimates
ClosedForm ==
    DSub(estimate, DDiv(DSub(estimate, runStart), Ratio(Pow2(runLength), 1)))

\* C8 as stated: each sample cycle replaces the running average A by
\* (A + E) / 2, and after N consecutive sample cycles with one estimate E,
\* from average A0 and with no out-of-range reset in between, the average
\* is E - (E - A0) / 2^N.
C8_ClosedFormAnyEstimate ==
    /\ JustAveraged =>
          /\ Same(estimate, InstantEstimate)
          /\ Same(unknownResistance,
                  DDiv(DAdd(prevAverage, InstantEstimate), Ratio(2, 1)))
    /\ (JustAveraged /\ runLength >= 1)
          => Same(unknownResistance, ClosedForm)

\* C8 amended: each sample cycle replaces the running average A by
\* (A + E) / 2, and after N consecutive sample cycles with one finite
\* estimate E, from average A0 and with no out-of-range reset in between,
\* the average is E - (E - A0) / 2^N.
C8_ClosedFormFiniteEstimate ==
    /\ JustAveraged =>
          /\ Same(estimate, InstantEstimate)
          /\ Same(unknownResistance,
                  DDiv(DAdd(prevAverage, InstantEstimate), Ratio(2, 1)))
    /\ (JustAveraged /\ runLength >= 1 /\ IsFinite(estimate))
          => Same(unknownResistance, ClosedForm)

C8_Witness ==
    /\ JustAveraged
    /\ runLength = 2
    /\ IsFinite(estimate)
    /\ estimate.s = 1
    /\ IsFinite(runStart)
    /\ IsFinite(unknownResistance)
    /\ ~DEq(unknownResistance, estimate)

\* C9: the reference reading, every known-tap reading and the first
\* unknown-resistor reading of a read cycle are taken at the default tier
\* (2/3x), the second unknown-resistor reading at the tier just selected,
\* and the gain is back at the default tier when the cycle ends; one of the
\* six tiers is active at any time, the default one outside a read cycle.
C9_GainDiscipline ==
    /\ gain \in {Gains[i] : i \in 1..6}
    /\ pc \notin {"rv_read2", "rv_resetgain"} => gain = "GAIN_TWOTHIRDS"
    /\ \A j \in 1..Len(io) :
         io[j].op = "read" =>
            IF IsRead(io[j], "0_1") /\ \E i \in 1..(j - 1) : IsRead(io[i], "0_1")
            THEN /\ io[j - 1].op = "setGain"
                 /\ io[j].gain = io[j - 1].gain
            ELSE io[j].gain = "GAIN_TWOTHIRDS"
    /\ pc = "rv_resetgain" =>
         /\ Cardinality(ReadsAt("0_1")) = 2
         /\ io[Len(io)].gain = gain
    /\ pc = "calculateCurrent" =>
         (io[Len(io)].op = "setGain" /\ io[Len(io)].gain = "GAIN_TWOTHIRDS")

C9_Witness ==
    /\ pc = "rv_resetgain"
    /\ IsRead(io[Len(io)], "0_1")
    /\ io[Len(io)].gain = "GAIN_SIXTEEN"
    /\ gain = "GAIN_SIXTEEN"

BeginFailed == lcd.kind = "ADC Fail"

\* C11: if ads.begin() fails in setup(), "ADC Fail" is on the display and
\* the system has halted: loop() has not run and never runs, so there is no
\* sample cycle, no peripheral call of a read cycle, no display refresh and
\* no change of any variable afterwards, and all four tap-enable outputs
\* are and stay low.
C11_FailStop ==
    /\ [](BeginFailed =>
            /\ pc = "halt"
            /\ AllLow
            /\ loops = 0
            /\ calls = << >>
            /\ io = << >>
            /\ sampleAt = 0
            /\ displayAt = 0
            /\ DEq(unknownResistance, DZero))
    /\ [](pc = "halt" => BeginFailed)
    /\ [][BeginFailed => (pc' = "halt" /\ vars' = vars)]_vars

C11_Witness ==
    /\ pc = "halt"
    /\ BeginFailed
    /\ AllLow
    /\ loops = 0

\* the steps of the sampling activity
SamplingStep ==
    pc \in {"rv_reset", "rv_read", "rv_search", "rv_gain", "rv_read2",
            "rv_resetgain", "calculateCurrent", "calculateResistance"}

\* the step of loop()'s display test runs displayMeasurement
RefreshStep ==
    /\ pc = "display"
    /\ calls' # << >>
    /\ calls'[Len(calls')] = "displayMeasurement"

\* C12 as stated: the measurement scalars are written by the sampling
\* activity only, and every display refresh leaves all six of them
\* unchanged.
C12_DisplayWritesNothing ==
    [][/\ measureVars' # measureVars => (SamplingStep \/ pc = "setup")
       /\ pc = "display" => measureVars' = measureVars]_vars

\* C12 amended: after setup() the measurement scalars are written by the
\* sampling activity, and a display refresh leaves the three voltages, the
\* known resistance and the current unchanged; its one write is to the
\* running average, which a refresh that finds it negative or >= 1.5e6
\* resets to zero and any other refresh leaves unchanged.
C12_DisplayWritesAverageOnly ==
    [][/\ measureVars' # measureVars
            => (SamplingStep \/ pc = "setup" \/ RefreshStep)
       /\ pc = "display" =>
            /\ UNCHANGED <<referenceVoltage, knownVoltage, unknownVoltage,
                           knownResistance, current>>
            /\ IF RefreshStep /\ (DLt(unknownResistance, DZero)
                                   \/ DGe(unknownResistance, Ratio(1500000, 1)))
               THEN DEq(unknownResistance', DZero)
               ELSE unknownResistance' = unknownResistance]_vars

C12_Witness ==
    /\ Refreshed
    /\ lcd.kind = "OL"
    /\ DGe(shown, Ratio(1500000, 1))
    /\ DEq(unknownResistance, DZero)
    /\ knownVoltage = 0
    /\ unknownVoltage = 300
    /\ DEq(knownResistance, Ratio(RESISTOR_1M, 1))

One == Ratio(1, 1)

\* 1/r for a tap whose enable output is high, 0 for one whose output is low
Conductance(pin, r) ==
    IF pins[pin] = "HIGH" THEN DDiv(One, Ratio(r, 1)) ELSE DZero

\* 1 / (1/baseline + sum of 1/tap over the taps whose output is high)
ReciprocalSum ==
    DDiv(One,
         DAdd(DDiv(One, Ratio(990090, 1)),
              DAdd(DAdd(Conductance(res_220, 220), Conductance(res_1k, 1000)),
                   DAdd(Conductance(res_10k, 9997),
                        Conductance(res_100k, 100078)))))

\* C13: after the reset and after each tap enable of a read cycle, and
\* between two read cycles, the known resistance is the reciprocal-sum
\* parallel combination of the baseline 990090 and exactly the taps whose
\* enable output is high; each tap enable strictly lowers it; and the
\* baseline in parallel with 220 is 219.95 to two decimals.
C13_ParallelCombination ==
    /\ DGe(Parallel(Ratio(990090, 1), 220), Ratio(219945, 1000))
    /\ DLt(Parallel(Ratio(990090, 1), 220), Ratio(219955, 1000))
    /\ [](pc \in {"loop", "rv_read", "rv_search", "rv_gain"} =>
            /\ DEq(knownResistance, ReciprocalSum)
            /\ DGe(Ratio(990090, 1), knownResistance)
            /\ DLt(DZero, knownResistance))
    /\ [](pc = "rv_read" => DEq(knownResistance, Ratio(990090, 1)))
    /\ [][(pc = "rv_search" /\ pins' # pins)
            => DLt(knownResistance', knownResistance)]_vars

C13_Witness ==
    /\ pc = "rv_gain"
    /\ Len(Highs) = 3
    /\ pins[res_220] = "LOW"
    /\ pins[res_1k] = "HIGH"
    /\ DLt(knownResistance, Ratio(1000, 1))
    /\ DEq(knownResistance, ReciprocalSum)

Reverse(q) == [j \in 1..Len(q) |-> q[Len(q) + 1 - j]]

\* C14: the reset at the start of a read cycle writes low to exactly the
\* taps the previous cycle enabled, once each, in the reverse of the order
\* of their enabling (the last enabled first, the first enabled last), and
\* makes no other write.
C14_ResetReversesEnabling ==
    [][pc = "rv_reset" =>
          /\ Len(io') = Len(enabled)
          /\ \A j \in 1..Len(io') :
                /\ IsLow(io'[j])
                /\ io'[j].pin = Reverse(enabled)[j]
          /\ \A p \in Pins :
                (\E j \in 1..Len(io') : io'[j].pin = p) = (pins[p] = "HIGH")]_vars

C14_Witness ==
    /\ pc = "rv_read"
    /\ loops = 2
    /\ Len(io) = 4
    /\ io[1].pin = res_220
    /\ io[4].pin = res_100k
    /\ AllLow

\* C15: from the second display refresh after the last sample cycle whose
\* estimate was not a finite value in [0, 1.5e6), whatever the running
\* average was then, the display shows a finite number, not the
\* out-of-range indicator or a non-number; and the running average is
\* finite after every display refresh.
C15_Recovery ==
    /\ (Refreshed /\ calm >= 2) => (lcd.kind = "ohms" /\ IsFinite(lcd.value))
    /\ Refreshed => IsFinite(unknownResistance)

\* millis() still fits the int it is stored in
NotWrapped == now < Pow2(IntBits - 1)

\* C16: as long as the millisecond clock has not wrapped, a loop()
\* iteration that refreshes the display has run a sample cycle before the
\* refresh; so there is no refresh before the first sample cycle, and the
\* average a refresh finds is the one calculateResistance produced in the
\* same iteration, at the same reading of the clock.
C16_RefreshAfterSample ==
    /\ (Refreshed /\ NotWrapped) =>
          /\ calls = <<"readVoltages", "calculateCurrent",
                       "calculateResistance", "displayMeasurement">>
          /\ sampleAt = now
          /\ displayAt = now
          /\ lastSample = currentTime
          /\ Same(shown, DDiv(DAdd(prevAverage, estimate), Ratio(2, 1)))
    /\ (NotWrapped /\ pc \notin {"setup", "halt", "display"})
          => (displayAt <= sampleAt /\ lastDisplay <= lastSample)
    /\ (NotWrapped /\ sampleAt = 0) => (displayAt = 0 /\ lcd = Blank)

C16_Witness ==
    /\ Refreshed
    /\ NotWrapped
    /\ loops = 3
    /\ now = 100
    /\ Len(calls) = 4
    /\ lcd.kind = "ohms"

\* the tap of index i (from 0) of the table {220, 1000, 9997, 100078}
TapPin(i) == <<res_220, res_1k, res_10k, res_100k>>[i + 1]

\* with counter value o and levels lv: 0 <= o <= 4, and tap i is high if
\* and only if i >= o
TapsMatch(lv, o) ==
    /\ o \in 0..4
    /\ \A i \in 0..3 : (lv[TapPin(i)] = "HIGH") = (i >= o)

\* the levels after the first j writes of the sequence w
LevelsAfter(w, j) == Apply(pins, SubSeq(w, 1, j))

\* C17: in every state 0 <= openSwitches <= 4 and tap i's enable output is
\* high if and only if i >= openSwitches, so the enabled taps are the last
\* 4 - openSwitches of the table, within a cycle and across cycles, also
\* after each single write of the reset loop; and every index used into
\* SWITCHES and RESISTANCE_VALUES is in 0..3.
C17_CounterMatchesOutputs ==
    /\ [](/\ TapsMatch(pins, openSwitches)
          /\ Cardinality({p \in Pins : pins[p] = "HIGH"}) = 4 - openSwitches)
    /\ [][pc = "rv_reset" =>
            /\ Len(io') = 4 - openSwitches
            /\ \A j \in 0..Len(io') :
                  TapsMatch(LevelsAfter(io', j), openSwitches + j)
            /\ \A j \in 1..Len(io') :
                  io'[j].pin = TapPin(openSwitches + j - 1)]_vars
    /\ [][(pc = "rv_search" /\ pc' = "rv_search") =>
            /\ openSwitches' = openSwitches - 1
            /\ openSwitches' \in 0..3
            /\ io'[Len(io) + 1] = Write(TapPin(openSwitches'), "HIGH")
            /\ enabled'[Len(enabled')] = TapPin(openSwitches')]_vars

C17_Witness ==
    /\ pc = "rv_search"
    /\ loops = 2
    /\ openSwitches = 2
    /\ Len(io) = 10
    /\ pins[res_100k] = "HIGH"
    /\ pins[res_10k] = "HIGH"
    /\ pins[res_1k] = "LOW"

\* what loop() called in an iteration that found s ms elapsed since the last
\* sample cycle and g ms since the last refresh, were both tests exact
Expected(s, g) ==
    (IF s >= 1
     THEN <<"readVoltages", "calculateCurrent", "calculateResistance">>
     ELSE << >>)
    \o (IF g >= 100 THEN <<"displayMeasurement">> ELSE << >>)

\* C18 as stated: with loop() iterations less than 2^(w-1) ms apart, also
\* after the w-bit clock has wrapped, an iteration runs a sample cycle if
\* and only if at least 1 ms has elapsed since the last one, and a refresh
\* if and only if at least 100 ms have elapsed since the last one.
C18_WrapSafeBelowHalfRange ==
    (pc = "loop" /\ loops >= 1 /\ longest < Pow2(16 - 1))
        => calls = Expected(sampleGap, displayGap)

\* C18 amended: the same with loop() iterations at most 2^(w-1) - 100 ms
\* apart.
C18_WrapSafeBelowHalfRangeLess100 ==
    (pc = "loop" /\ loops >= 1 /\ longest <= Pow2(16 - 1) - 100)
        => /\ calls = Expected(sampleGap, displayGap)
           /\ sampleGap < Pow2(16 - 1)
           /\ displayGap < Pow2(16 - 1)

C18_Witness ==
    /\ pc = "loop"
    /\ now = 32768
    /\ currentTime = -32768
    /\ lastDisplay = -32768
    /\ longest = 32668
    /\ displayGap = 100
    /\ Refreshed

====
